---- MODULE Spec2Model ----
(***************************************************************************)
(* A model of run_dynamic_epharmacophore.py: the selection of the input    *)
(* frames, the batch loop with its worker pool, the per-frame pipeline of  *)
(* external stage programs, the wait for the grid archive, the job-control *)
(* cleanup after each batch and the final collection of the hypotheses.    *)
(*                                                                         *)
(* The external stage programs are opaque.  The model takes from their     *)
(* interface only this: an invocation either exits 0 and leaves the output *)
(* file the pipeline expects from it, or exits non-zero                    *)
(* (subprocess.CalledProcessError) and leaves no output.  The grid job is  *)
(* asynchronous: generate_glide_grids returns after submitting it and the  *)
(* job backend deposits the archive in the working directory later.        *)
(***************************************************************************)
EXTENDS Integers, Sequences, FiniteSets, TLC

\* Bounds of the model.
MaxIdx == 3      \* input files are named 1.mae .. MaxIdx.mae
MaxStep == 2     \* --step ranges over 1..MaxStep
MaxBatch == 2    \* --batch ranges over 1..MaxBatch
MaxCores == 4    \* --ncores ranges over 1..MaxCores

Idx == 1..MaxIdx
\* --ncores: a single core, and the two largest counts of the bound (an odd
\* and an even one).
CoreCounts == {1, MaxCores - 1, MaxCores}

VARIABLES
    avail,          \* indices i with input_mae_files/<i>.mae present
    START_IDX, END_IDX, STEP, USER_NCORES, BATCH_SIZE,
    mainpc,         \* position of the main script
    selected_maes,  \* line 74
    batch_start,    \* loop variable of line 180
    batch,          \* line 181
    batchLog,       \* history: the batches formed so far, in order
    worker,         \* pool: worker -> the frame it is running, or 0
    nextTask,       \* pool: position in batch of the next task to hand out
    exc,            \* pool: a task of the current map raised
    pc,             \* frame -> state of its pipeline
    invoked,        \* history: frame -> the stage calls made, with outcomes
    gridjob,        \* frame -> state of its grid job in the backend
    zips,           \* *.zip of PROCESSED_DIR, oldest modification first
    gridSrc,        \* frame -> owner of the archive copied to <f>_grid.zip
    workPhypo,      \* *.phypo of PROCESSED_DIR
    hypDir,         \* files of saved_HYPOTHESIS
    initWork,       \* history: workPhypo at the start of the run
    initHyp,        \* history: hypDir at the start of the run
    cleanups,       \* history: jobcontrol invocations so far
    cleanLog,       \* history: batch number of each jobcontrol invocation
    collects,       \* history: executions of the collection loop
    cleanupStatus   \* how the jobcontrol call just made ended, "none" elsewhere

cfg == <<avail, START_IDX, END_IDX, STEP, USER_NCORES, BATCH_SIZE>>
mainv == <<mainpc, selected_maes, batch_start, batch, batchLog>>
poolv == <<worker, nextTask, exc>>
framev == <<pc, invoked, gridjob, zips, gridSrc>>
filev == <<workPhypo, hypDir, initWork, initHyp>>
histv == <<cleanups, cleanLog, collects, cleanupStatus>>
vars == <<cfg, mainv, poolv, framev, filev, histv>>

Min(a, b) == IF a <= b THEN a ELSE b
Max(a, b) == IF a >= b THEN a ELSE b

(***************************************************************************)
(* Frame selection (lines 73-74).                                          *)
(***************************************************************************)
RECURSIVE SortByIndex(_)
\* sorted(glob(...), key=int(basename)): ascending by integer index.
SortByIndex(S) ==
    IF S = {} THEN <<>>
    ELSE LET m == CHOOSE x \in S : \A y \in S : x <= y
         IN <<m>> \o SortByIndex(S \ {m})

\* a % b of Python for b # 0: the remainder has the sign of b.
PyMod(a, b) == IF b > 0 THEN a % b ELSE -((-a) % (-b))

\* Line 74 raises ZeroDivisionError when the stride is 0 and a file is in
\* range: the modulo is evaluated only for start <= i <= end.
SelectionRaises(files, start, end, step) ==
    step = 0 /\ \E i \in files : start <= i /\ i <= end

\* A faulty variant of KeepsFrame: the stride is counted from 0, not from start.
KeepsFrameFromZero(i, start, end, step) ==
    start <= i /\ i <= end /\ i % step = 0

\* The filter of line 74 on one index.
KeepsFrame(i, start, end, step) ==
    start <= i /\ i <= end /\ PyMod(i - start, step) = 0

SelectFrames(files, start, end, step) ==
    SelectSeq(SortByIndex(files), LAMBDA i : KeepsFrame(i, start, end, step))

(***************************************************************************)
(* Batch loop arithmetic (lines 178-184).                                  *)
(***************************************************************************)
\* s[lo:hi] of Python for 0 <= lo <= hi.
Slice(s, lo, hi) == SubSeq(s, lo + 1, Min(hi, Len(s)))

\* selected_maes[batch_start:batch_start + BATCH_SIZE], line 181.
BatchAt(sel, bstart, bsize) == Slice(sel, bstart, bstart + bsize)

\* A faulty variant of NextBatchStart: the loop advances by one frame.
NextBatchStartByOne(bstart, bsize) == bstart + 1

\* The next value of range(0, n, BATCH_SIZE), line 180.
NextBatchStart(bstart, bsize) == bstart + bsize

\* Whether bstart is a value of range(0, n, bsize), bsize # 0: a negative
\* step counts down from 0, so with n >= 0 the range is empty.
LoopContinues(bstart, n, bsize) == IF bsize > 0 THEN bstart < n ELSE bstart > n

RECURSIVE RangeStarts(_, _, _)
\* The values of range(from, n, bsize).
RangeStarts(from, n, bsize) ==
    IF ~LoopContinues(from, n, bsize) THEN <<>>
    ELSE <<from>> \o RangeStarts(NextBatchStart(from, bsize), n, bsize)

\* The batches of the loop of lines 180-181, in the order it forms them.
AllBatches(sel, bsize) ==
    LET starts == RangeStarts(0, Len(sel), bsize)
    IN [k \in DOMAIN starts |-> BatchAt(sel, starts[k], bsize)]

\* ceil(len(selected_maes) / BATCH_SIZE), line 178.
TotalBatches(n, bsize) == (n + bsize - 1) \div bsize

\* A faulty variant of PoolWidth: one worker per core.
PoolWidthPerCore(ncores, blen) == Min(Max(1, ncores), blen)

\* Pool(processes=min(max(1, USER_NCORES // 2), len(batch))), line 184.
PoolWidth(ncores, blen) == Min(Max(1, ncores \div 2), blen)

(***************************************************************************)
(* Files.  A hypothesis file <idx>_hypo.phypo is a record; dup is 0 for    *)
(* the name the pipeline gives it.  A directory is a set of such records   *)
(* with pairwise different names.                                          *)
(***************************************************************************)
Phypo(i, c) == [idx |-> i, dup |-> 0, content |-> c]
NameOf(e) == <<e.idx, e.dup>>

\* A faulty variant of DestName: a name taken in the directory is not reused.
DestNameUnique(e, dir) ==
    IF \E x \in dir : NameOf(x) = NameOf(e) THEN <<e.idx, e.dup + 1>> ELSE NameOf(e)

\* os.path.join(HYPOTHESIS_DIR, os.path.basename(file)), line 202.
DestName(e, dir) == NameOf(e)

\* shutil.copy(file, dest): creates dest or overwrites it.
CopyInto(dir, e) ==
    LET d == DestName(e, dir)
    IN {x \in dir : NameOf(x) # d} \cup {[idx |-> d[1], dup |-> d[2], content |-> e.content]}

RECURSIVE CopyAll(_, _)
CopyAll(files, dir) ==
    IF files = {} THEN dir
    ELSE LET e == CHOOSE x \in files : TRUE
         IN CopyAll(files \ {e}, CopyInto(dir, e))

\* A faulty variant of GlobPhypo: the pattern is relative to the directory the main
\* script runs in, which holds no hypothesis.
GlobPhypoCwd(work) == {}

\* glob(PROCESSED_DIR/*.phypo), line 201: every hypothesis file of the
\* working directory, whichever run wrote it.
GlobPhypo(work) == work

\* The collection loop, lines 201-202.
CollectHypotheses(work, dir) == CopyAll(GlobPhypo(work), dir)

(***************************************************************************)
(* The wait for the grid archive, lines 142-149.  zips holds the *.zip      *)
(* files of the working directory, oldest modification first.               *)
(***************************************************************************)
\* "gridgen" in z, line 146: <idx>_grid.zip does not contain it.
NameHasGridgen(z) == z.kind = "gridgen"

\* A faulty variant of NewestMatch: the list sorted oldest first (no
\* reverse=True).
OldestMatch(zs) ==
    LET cands == {i \in 1..Len(zs) : NameHasGridgen(zs[i])}
    IN IF cands = {} THEN 0 ELSE CHOOSE i \in cands : \A j \in cands : i <= j

\* First match of the list sorted by getmtime, newest first: its position
\* in zips, or 0 when nothing matches.
NewestMatch(zs) ==
    LET cands == {i \in 1..Len(zs) : NameHasGridgen(zs[i])}
    IN IF cands = {} THEN 0 ELSE CHOOSE i \in cands : \A j \in cands : j <= i

(***************************************************************************)
(* Initial state: the arguments, the input directory and what an earlier   *)
(* run may have left in the working and collection directories.            *)
(***************************************************************************)
Leftovers == {{}, {Phypo(1, "prior")}}

\* What the script has done before line 73, whatever its arguments are.
Fresh ==
    /\ selected_maes = <<>>
    /\ batch_start = 0
    /\ batch = <<>>
    /\ batchLog = <<>>
    /\ worker = <<>>
    /\ nextTask = 1
    /\ exc = FALSE
    /\ pc = [f \in Idx |-> "Pending"]
    /\ invoked = [f \in Idx |-> <<>>]
    /\ gridjob = [f \in Idx |-> "none"]
    /\ zips = <<>>
    /\ gridSrc = [f \in Idx |-> 0]
    /\ initWork = workPhypo
    /\ initHyp = hypDir
    /\ cleanups = 0
    /\ cleanLog = <<>>
    /\ cleanupStatus = "none"
    /\ collects = 0

\* The directories of a first run are empty.
CleanStart ==
    /\ workPhypo = {}
    /\ hypDir = {}

\* A run in directories that an earlier run on frame 1 has used: its
\* hypothesis is still in the working directory.
Rerun ==
    /\ workPhypo \in Leftovers \ {{}}
    /\ hypDir \in {{}, workPhypo}
    /\ START_IDX = 1
    /\ END_IDX = MaxIdx
    /\ STEP = 1
    /\ USER_NCORES = MaxCores
    /\ BATCH_SIZE = MaxBatch

\* Runs over every input directory, start and end index, stride, core count
\* and batch size of the bounds.
Init ==
    /\ avail \in SUBSET Idx
    /\ START_IDX \in Idx
    /\ END_IDX \in Idx
    /\ STEP \in 1..MaxStep
    /\ USER_NCORES \in CoreCounts
    /\ BATCH_SIZE \in 1..MaxBatch
    /\ (CleanStart \/ Rerun)
    /\ Fresh
    /\ mainpc = "select"

(***************************************************************************)
(* Main script.                                                            *)
(***************************************************************************)
\* A faulty variant of AfterSelection: the empty selection is not checked.
AfterSelectionUnchecked(sel) == "loop"

\* Lines 76-78: sys.exit(1) when nothing is selected.
AfterSelection(sel) == IF sel = <<>> THEN "exit1" ELSE "loop"

\* Lines 73-78 and 178: select the frames and compute the number of
\* batches.  A stride of 0 raises at line 74 when a file is in range, a
\* batch size of 0 raises at line 178; nothing catches either.
Select ==
    /\ mainpc = "select"
    /\ IF SelectionRaises(avail, START_IDX, END_IDX, STEP)
       THEN /\ mainpc' = "crashed"
            /\ UNCHANGED selected_maes
       ELSE /\ selected_maes' = SelectFrames(avail, START_IDX, END_IDX, STEP)
            /\ mainpc' = IF AfterSelection(selected_maes') = "loop" /\ BATCH_SIZE = 0
                         THEN "crashed"
                         ELSE AfterSelection(selected_maes')
    /\ UNCHANGED <<cfg, batch_start, batch, batchLog, poolv, framev, filev, histv>>

\* Lines 180-185: the next iteration of the batch loop creates the pool and
\* hands the batch to pool.map.
BatchStart ==
    /\ mainpc = "loop"
    /\ LoopContinues(batch_start, Len(selected_maes), BATCH_SIZE)
    /\ batch' = BatchAt(selected_maes, batch_start, BATCH_SIZE)
    /\ batchLog' = Append(batchLog, batch')
    /\ worker' = [w \in 1..PoolWidth(USER_NCORES, Len(batch')) |-> 0]
    /\ nextTask' = 1
    /\ exc' = FALSE
    /\ mainpc' = "map"
    /\ cleanupStatus' = "none"
    /\ UNCHANGED <<cfg, selected_maes, batch_start, framev, filev, cleanups, cleanLog, collects>>

Terminal(f) == pc[f] \in {"Done", "Failed"}
InFlight(f) == pc[f] \notin {"Pending", "Done", "Failed"}

\* A faulty variant of MapReturn: the main script goes on as soon as every
\* task is handed out (map_async without a wait).
MapReturnEarly ==
    /\ mainpc = "map"
    /\ nextTask > Len(batch)
    /\ mainpc' = IF exc THEN "crashed" ELSE "cleanup"
    /\ UNCHANGED <<cfg, selected_maes, batch_start, batch, batchLog, poolv, framev, filev, histv>>

\* Lines 185-187: pool.map returns when every task of the batch has
\* finished; it re-raises in the main script the exception of a task that
\* raised, and nothing catches it there.
MapReturn ==
    /\ mainpc = "map"
    /\ nextTask > Len(batch)
    /\ \A w \in DOMAIN worker : worker[w] = 0
    /\ mainpc' = IF exc THEN "crashed" ELSE "cleanup"
    /\ UNCHANGED <<cfg, selected_maes, batch_start, batch, batchLog, poolv, framev, filev, histv>>

\* How subprocess.run of line 193 can end: exit status 0, another exit
\* status, or OSError when jobcontrol cannot be launched.
CleanupOutcomes == {"ok", "nonzero", "oserror"}

\* A faulty variant of AfterCleanup: the call made with check=True and no
\* handler.
AfterCleanupChecked(r) == IF r = "ok" THEN "loop" ELSE "crashed"

\* Lines 192-196: subprocess.run without check ignores the exit status and
\* except Exception catches a failure to launch; the loop goes on.
AfterCleanup(r) == "loop"

\* Lines 191-196: jobcontrol -delete finished, then the next iteration.
Cleanup ==
    /\ mainpc = "cleanup"
    /\ cleanups' = cleanups + 1
    /\ cleanLog' = Append(cleanLog, Len(batchLog))
    /\ batch_start' = NextBatchStart(batch_start, BATCH_SIZE)
    /\ \E r \in CleanupOutcomes :
         /\ cleanupStatus' = r
         /\ mainpc' = AfterCleanup(r)
    /\ UNCHANGED <<cfg, selected_maes, batch, batchLog, poolv, framev, filev, collects>>

\* Lines 201-204: after the last batch, copy the hypotheses and finish.
Collect ==
    /\ mainpc = "loop"
    /\ ~LoopContinues(batch_start, Len(selected_maes), BATCH_SIZE)
    /\ hypDir' = CollectHypotheses(workPhypo, hypDir)
    /\ collects' = collects + 1
    /\ mainpc' = "done"
    /\ cleanupStatus' = "none"
    /\ UNCHANGED <<cfg, selected_maes, batch_start, batch, batchLog, poolv, framev,
                   workPhypo, initWork, initHyp, cleanups, cleanLog>>

(***************************************************************************)
(* process_frame (lines 83-173), run by a pool worker.  pc[f] names the    *)
(* stage frame f is about to run; a call to a stage is one step, from its  *)
(* invocation to its exit.                                                 *)
(***************************************************************************)
Logged(f, stage, ok) ==
    [invoked EXCEPT ![f] = Append(@, [stage |-> stage, ok |-> ok])]

\* The worker that ran f returns to the pool's task queue.
Released(f) == [w \in DOMAIN worker |-> IF worker[w] = f THEN 0 ELSE worker[w]]

\* A faulty variant of StageEnds: the except branch does not return.
StageEndsNoReturn(f, stage, ok, next) ==
    /\ invoked' = Logged(f, stage, ok)
    /\ pc' = [pc EXCEPT ![f] = next]
    /\ worker' = worker

\* A stage of f ended: it goes on to the next stage, or the function returns.
StageEnds(f, stage, ok, next) ==
    /\ invoked' = Logged(f, stage, ok)
    /\ pc' = [pc EXCEPT ![f] = IF ok THEN next ELSE "Failed"]
    /\ worker' = IF ok THEN worker ELSE Released(f)

\* An idle worker takes the next task of the batch (pool.map hands the
\* tasks out in order, one per chunk for a batch of at most four times the
\* pool width); lines 84-89 copy the input file into the working directory.
\* shutil.copy is outside every try block: when the input cannot be copied
\* (unreadable, or a directory named <i>.mae) the task raises, the worker
\* stores the exception and is free for the next task.
StartFrame(w) ==
    /\ mainpc = "map"
    /\ nextTask <= Len(batch)
    /\ worker[w] = 0
    /\ nextTask' = nextTask + 1
    /\ LET f == batch[nextTask]
       IN \E copied \in BOOLEAN :
            /\ pc' = [pc EXCEPT ![f] = IF copied THEN "Preparing" ELSE "Failed"]
            /\ worker' = IF copied THEN [worker EXCEPT ![w] = f] ELSE worker
            /\ exc' = (exc \/ ~copied)
    /\ UNCHANGED <<cfg, mainv, invoked, gridjob, zips, gridSrc, filev, histv>>

\* Lines 91-103: prepwizard, then the rename of its output.
Prepare(f) ==
    /\ pc[f] = "Preparing"
    /\ \E ok \in BOOLEAN : StageEnds(f, "prepare", ok, "Splitting")
    /\ UNCHANGED <<cfg, mainv, nextTask, exc, gridjob, zips, gridSrc, filev, histv>>

\* Lines 105-113: pv_convert.py -mode split_ligand, then -mode
\* split_receptor, which runs only when the first call succeeded.
Split(f) ==
    /\ pc[f] = "Splitting"
    /\ \E lig \in BOOLEAN, rec \in BOOLEAN :
         /\ invoked' = IF lig
                       THEN [invoked EXCEPT ![f] =
                               @ \o <<[stage |-> "split_ligand", ok |-> TRUE],
                                      [stage |-> "split_receptor", ok |-> rec]>>]
                       ELSE Logged(f, "split_ligand", FALSE)
         /\ (~lig => rec)
         /\ pc' = [pc EXCEPT ![f] = IF lig /\ rec THEN "Geometry" ELSE "Failed"]
         /\ worker' = IF lig /\ rec THEN worker ELSE Released(f)
    /\ UNCHANGED <<cfg, mainv, nextTask, exc, gridjob, zips, gridSrc, filev, histv>>

\* Lines 115-126: the ligand centre; every exception is caught.
Geometry(f) ==
    /\ pc[f] = "Geometry"
    /\ \E ok \in BOOLEAN : StageEnds(f, "geometry", ok, "GridGenerating")
    /\ UNCHANGED <<cfg, mainv, nextTask, exc, gridjob, zips, gridSrc, filev, histv>>

\* Lines 128-140: write the csv and submit the grid job.
GridGen(f) ==
    /\ pc[f] = "GridGenerating"
    /\ \E ok \in BOOLEAN :
         /\ StageEnds(f, "gridgen", ok, "WaitingForGrid")
         /\ gridjob' = [gridjob EXCEPT ![f] = IF ok THEN "pending" ELSE @]
    /\ UNCHANGED <<cfg, mainv, nextTask, exc, zips, gridSrc, filev, histv>>

\* The job backend writes the grid archive of f's job into the working
\* directory.
Deposit(f) ==
    /\ gridjob[f] = "pending"
    /\ gridjob' = [gridjob EXCEPT ![f] = "deposited"]
    /\ zips' = Append(zips, [kind |-> "gridgen", owner |-> f])
    /\ UNCHANGED <<cfg, mainv, poolv, pc, invoked, gridSrc, filev, histv>>

\* Lines 142-151: one poll of the wait loop.  Without a match the loop
\* sleeps and polls again; with one it copies the match to <f>_grid.zip.
Poll(f) ==
    /\ pc[f] = "WaitingForGrid"
    /\ LET i == NewestMatch(zips)
       IN IF i = 0
          THEN UNCHANGED <<pc, invoked, zips, gridSrc>>
          ELSE /\ gridSrc' = [gridSrc EXCEPT ![f] = zips[i].owner]
               /\ zips' = Append(zips, [kind |-> "grid", owner |-> f])
               /\ invoked' = Logged(f, "wait", TRUE)
               /\ pc' = [pc EXCEPT ![f] = "HypothesisGenerating"]
    /\ UNCHANGED <<cfg, mainv, poolv, gridjob, filev, histv>>

\* Lines 153-173: epharmacophores -WAIT ... -j <f>_hypo writes
\* <f>_hypo.phypo; the function returns either way.
Hypothesis(f) ==
    /\ pc[f] = "HypothesisGenerating"
    /\ \E ok \in BOOLEAN :
         /\ invoked' = Logged(f, "hypothesis", ok)
         /\ pc' = [pc EXCEPT ![f] = IF ok THEN "Done" ELSE "Failed"]
         /\ workPhypo' = IF ok THEN CopyInto(workPhypo, Phypo(f, "run")) ELSE workPhypo
    /\ worker' = Released(f)
    /\ UNCHANGED <<cfg, mainv, nextTask, exc, gridjob, zips, gridSrc,
                   hypDir, initWork, initHyp, histv>>

\* Lines 201-202 run once more, with nothing else of the script.
MaxCollects == 2

CollectAgain ==
    /\ mainpc = "done"
    /\ collects >= 1
    /\ collects < MaxCollects
    /\ hypDir' = CollectHypotheses(workPhypo, hypDir)
    /\ collects' = collects + 1
    /\ UNCHANGED <<cfg, mainv, poolv, framev, workPhypo, initWork, initHyp,
                   cleanups, cleanLog, cleanupStatus>>

Next ==
    \/ Select
    \/ BatchStart
    \/ MapReturn
    \/ Cleanup
    \/ Collect
    \/ \E w \in DOMAIN worker : StartFrame(w)
    \/ \E f \in Idx : Prepare(f)
    \/ \E f \in Idx : Split(f)
    \/ \E f \in Idx : Geometry(f)
    \/ \E f \in Idx : GridGen(f)
    \/ \E f \in Idx : Deposit(f)
    \/ \E f \in Idx : Poll(f)
    \/ \E f \in Idx : Hypothesis(f)

Spec == Init /\ [][Next]_vars

(***************************************************************************)
(* Scheduling.  The main script and every pool worker are processes of the *)
(* operating system and proceed whenever they can; a stage program that    *)
(* was started exits (subprocess.run returns); a grid job that was         *)
(* submitted writes its archive.                                           *)
(***************************************************************************)
MainStep == Select \/ BatchStart \/ MapReturn \/ Cleanup \/ Collect

FrameStep(f) ==
    Prepare(f) \/ Split(f) \/ Geometry(f) \/ GridGen(f) \/ Poll(f) \/ Hypothesis(f)

Fairness ==
    /\ WF_vars(MainStep)
    /\ WF_vars(\E w \in DOMAIN worker : StartFrame(w))
    /\ \A f \in Idx : WF_vars(FrameStep(f))

(***************************************************************************)
(* Runs with any integer arguments: argparse (lines 32-44) accepts zero    *)
(* and negative values and no line of the script checks them.              *)
(***************************************************************************)
NonPositive == {-1, 0}

InitArgs ==
    /\ avail \in SUBSET Idx
    /\ START_IDX \in Idx
    /\ END_IDX \in Idx
    /\ STEP \in NonPositive \cup 1..MaxStep
    /\ USER_NCORES \in NonPositive \cup CoreCounts
    /\ BATCH_SIZE \in NonPositive \cup 1..MaxBatch
    /\ CleanStart
    /\ Fresh
    /\ mainpc = "select"

SpecArgs == InitArgs /\ [][Next]_vars

SpecLive == Spec /\ Fairness /\ \A f \in Idx : WF_vars(Deposit(f))

(***************************************************************************)
(* The same run on a backend whose grid job may end without writing its    *)
(* archive (generate_glide_grids returns at submission, lines 134-137, and *)
(* nothing in the script looks at the job afterwards): the wait loop of    *)
(* lines 144-149 then polls with no bound.                                 *)
(***************************************************************************)
JobLost(f) ==
    /\ gridjob[f] = "pending"
    /\ gridjob' = [gridjob EXCEPT ![f] = "lost"]
    /\ UNCHANGED <<cfg, mainv, poolv, pc, invoked, zips, gridSrc, filev, histv>>

NextHang == Next \/ \E f \in Idx : JobLost(f)

SpecHang == Init /\ [][NextHang]_vars /\ Fairness

(***************************************************************************)
(* The collection step alone: the script is past its last batch, over any  *)
(* working directory and any collection directory of the bounds.           *)
(***************************************************************************)
PhypoFiles == {Phypo(i, c) : i \in Idx, c \in {"prior", "run"}}
Directories == {d \in SUBSET PhypoFiles : \A x, y \in d : NameOf(x) = NameOf(y) => x = y}

InitCollect ==
    /\ avail = {}
    /\ START_IDX = 1
    /\ END_IDX = 1
    /\ STEP = 1
    /\ USER_NCORES = 1
    /\ BATCH_SIZE = 1
    /\ workPhypo \in Directories
    /\ hypDir \in Directories
    /\ Fresh
    /\ mainpc = "loop"

SpecCollect == InitCollect /\ [][Collect \/ CollectAgain]_vars

(***************************************************************************)
(* Properties.                                                             *)
(***************************************************************************)
Selected == {selected_maes[k] : k \in DOMAIN selected_maes}
\* The available indices START_IDX, START_IDX + STEP, ... up to END_IDX.
Eligible ==
    {i \in avail : /\ START_IDX <= i
                   /\ i <= END_IDX
                   /\ \E q \in 0..MaxIdx : i = START_IDX + q * STEP}
Stages(f) == [k \in DOMAIN invoked[f] |-> invoked[f][k].stage]
IsPrefix(s, t) == Len(s) <= Len(t) /\ s = SubSeq(t, 1, Len(s))

\* C1: once the frames are selected, selected_maes lists exactly the
\* available indices i with START_IDX <= i <= END_IDX and
\* (i - START_IDX) mod STEP = 0, in strictly ascending order (so without
\* duplicates); on {1,2,3,5} with start 1, end 5, step 2 it is [1,3,5].
C1_FrameSelection ==
    /\ mainpc # "select" =>
         /\ Selected = Eligible
         /\ \A j, k \in DOMAIN selected_maes : j < k => selected_maes[j] < selected_maes[k]
    /\ SelectFrames({1, 2, 3, 5}, 1, 5, 2) = <<1, 3, 5>>

\* A run that skipped a present file because of the stride.
C1_Witness ==
    /\ mainpc # "select"
    /\ avail = {1, 2, 3}
    /\ START_IDX = 1
    /\ STEP = 2
    /\ selected_maes = <<1, 3>>

PipelineOrder ==
    <<"prepare", "split_ligand", "split_receptor", "geometry", "gridgen", "wait", "hypothesis">>

\* C2: for every frame the stage calls made so far are a prefix of the fixed
\* order prepare, split, geometry, grid generation, wait for the grid,
\* hypothesis; every call but the last one succeeded, so no call follows a
\* failed one; a frame is Done only after all of them succeeded.
C2_FailFastOrder ==
    \A f \in Idx :
        /\ IsPrefix(Stages(f), PipelineOrder)
        /\ \A k \in DOMAIN invoked[f] : k < Len(invoked[f]) => invoked[f][k].ok
        /\ pc[f] = "Done" =>
             Len(invoked[f]) = Len(PipelineOrder) /\ invoked[f][Len(invoked[f])].ok
        /\ (\E k \in DOMAIN invoked[f] : ~invoked[f][k].ok) => pc[f] = "Failed"

\* A frame that failed in the geometry stage and ran nothing after it,
\* while another frame went on to the end.
C2_Witness ==
    \E f, g \in Idx :
        /\ pc[f] = "Failed"
        /\ Stages(f) = SubSeq(PipelineOrder, 1, 4)
        /\ ~invoked[f][4].ok
        /\ pc[g] = "Done"
        /\ mainpc = "done"

CeilDiv(n, b) == IF n % b = 0 THEN n \div b ELSE n \div b + 1
DoneFrames == {f \in Idx : pc[f] = "Done"}
FailedFrames == {f \in Idx : pc[f] = "Failed"}
InFlightFrames == {f \in Idx : InFlight(f)}
RunEnded == mainpc \in {"done", "crashed"}
Members(s) == {s[k] : k \in DOMAIN s}
RECURSIVE Concat(_)
Concat(ss) == IF ss = <<>> THEN <<>> ELSE Head(ss) \o Concat(Tail(ss))

\* C3: when the main script has ended, every selected frame has reached
\* Done or Failed, the cleanup was invoked for every batch and the
\* collection has taken place, whichever frames failed and however.
C3_FailureIsolation ==
    RunEnded =>
        /\ \A f \in Selected : Terminal(f)
        /\ cleanups = CeilDiv(Len(selected_maes), BATCH_SIZE)
        /\ collects >= 1

\* C4: after a run that went through to the end in directories that were
\* empty at its start, the collection directory holds exactly the
\* hypotheses of the frames that reached Done: one each, as the run wrote
\* it, and nothing for a frame that reached Failed.
C4_CollectionInvariant ==
    (mainpc = "done" /\ initWork = {} /\ initHyp = {}) =>
        /\ Selected = DoneFrames \cup FailedFrames
        /\ hypDir = {Phypo(f, "run") : f \in DoneFrames}
        /\ Cardinality(hypDir) = Cardinality(DoneFrames)
        /\ \A f \in FailedFrames : \A e \in hypDir : e.idx # f

\* A finished first run with a frame that failed in its last stage and two
\* that succeeded.
C4_Witness ==
    /\ mainpc = "done"
    /\ initWork = {}
    /\ initHyp = {}
    /\ Cardinality(DoneFrames) = 2
    /\ \E f \in FailedFrames : Len(invoked[f]) = Len(PipelineOrder)

\* C5: the loop's batches are ceil(n/b) consecutive slices of the selected
\* sequence, each of b frames except possibly the last, which has 1..b;
\* together they are the selected sequence; the batches formed so far are
\* the first ones of that list, in order, and all of them when the run is
\* done.  5 frames in batches of 2 give sizes 2, 2, 1.
C5_BatchPartition ==
    /\ mainpc \notin {"select", "exit1"} =>
         LET P == AllBatches(selected_maes, BATCH_SIZE)
             n == Len(selected_maes)
         IN /\ Len(P) = CeilDiv(n, BATCH_SIZE)
            /\ Concat(P) = selected_maes
            /\ \A k \in DOMAIN P :
                 /\ k < Len(P) => Len(P[k]) = BATCH_SIZE
                 /\ Len(P[k]) \in 1..BATCH_SIZE
            /\ IsPrefix(batchLog, P)
            /\ mainpc = "done" => batchLog = P
    /\ LET Q == AllBatches(<<1, 2, 3, 4, 5>>, 2)
       IN [k \in DOMAIN Q |-> Len(Q[k])] = <<2, 2, 1>>

\* Three frames in batches of two: a full batch, then a short last one.
C5_Witness ==
    /\ mainpc = "done"
    /\ BATCH_SIZE = 2
    /\ batchLog = <<<<1, 2>>, <<3>>>>

\* C6: the cleanup is invoked once for every batch of the run, ceil(n/b)
\* times when the main script has ended; the cleanup of batch k comes only
\* after every frame of batch k is Done or Failed, and no frame of batch k
\* starts before the cleanup of batch k - 1.
C6_CleanupPerBatch ==
    /\ cleanLog = [k \in 1..cleanups |-> k]
    /\ RunEnded => cleanups = CeilDiv(Len(selected_maes), BATCH_SIZE)
    /\ \A k \in DOMAIN batchLog :
         /\ cleanups >= k => \A f \in Members(batchLog[k]) : Terminal(f)
         /\ (\E f \in Members(batchLog[k]) : pc[f] # "Pending") => cleanups >= k - 1

\* C7: the frames in flight are never more than
\* min(max(1, floor(ncores / 2)), size of the current batch); each of them
\* is held by exactly one worker, and a worker holds a frame until it is
\* Done or Failed.
C7_BoundedParallelism ==
    /\ Cardinality(InFlightFrames) <= Min(Max(1, USER_NCORES \div 2), Len(batch))
    /\ \A f \in InFlightFrames : Cardinality({w \in DOMAIN worker : worker[w] = f}) = 1
    /\ \A w \in DOMAIN worker : worker[w] # 0 => worker[w] \in InFlightFrames

\* Three cores, a batch of two: one frame in flight and the other waiting
\* for the only worker.
C7_Witness ==
    /\ mainpc = "map"
    /\ USER_NCORES = 3
    /\ Len(batch) = 2
    /\ Cardinality(InFlightFrames) = 1
    /\ nextTask = 2

\* C8: when no available file satisfies the selection formula, the script
\* exits with an error after the selection and has started no frame, made no
\* stage call, formed no batch, invoked no cleanup and collected nothing.
C8_EmptySelection ==
    (Eligible = {} /\ mainpc # "select") =>
        /\ mainpc = "exit1"
        /\ \A f \in Idx : pc[f] = "Pending" /\ invoked[f] = <<>>
        /\ batchLog = <<>>
        /\ cleanups = 0
        /\ collects = 0
        /\ hypDir = initHyp

\* Input files exist, none is selected, and the script has exited.
C8_Witness ==
    /\ mainpc = "exit1"
    /\ avail # {}

\* C9: a second execution of the collection step over an unchanged working
\* directory leaves the collection directory as the first one left it, and
\* the directory never holds two files for one frame.
C9_CollectorIdempotent ==
    /\ [](\A x, y \in hypDir : x.idx = y.idx => x = y)
    /\ [][(collects >= 1 /\ collects' = collects + 1 /\ workPhypo' = workPhypo)
            => hypDir' = hypDir]_vars

\* The collection ran twice and its first run had overwritten an entry.
C9_Witness ==
    /\ collects = 2
    /\ \E i \in Idx : Phypo(i, "prior") \in initHyp /\ Phypo(i, "run") \in hypDir
    /\ \E i \in Idx : Phypo(i, "prior") \in initHyp /\ Phypo(i, "prior") \in hypDir

\* C10: the archive a frame copies to its <f>_grid.zip is the one its own
\* grid job wrote.
C10_OwnGridOnly ==
    \A f \in Idx : gridSrc[f] \in {0, f}

\* C11: every frame in flight belongs to the current batch, and as soon as
\* a batch is formed every frame of every earlier batch is Done or Failed;
\* a frame of a batch that is not formed yet is still Pending.
C11_BatchesNeverOverlap ==
    /\ InFlightFrames \subseteq Members(batch)
    /\ \A k \in DOMAIN batchLog :
         k < Len(batchLog) => \A f \in Members(batchLog[k]) : Terminal(f)
    /\ \A f \in Selected :
         (\A k \in DOMAIN batchLog : f \notin Members(batchLog[k])) => pc[f] = "Pending"

\* A frame of the second batch is in flight after a frame of the first batch
\* failed, while a frame of a later batch is still Pending.
C11_Witness ==
    /\ Len(batchLog) = 2
    /\ Cardinality(InFlightFrames) = 1
    /\ \E f \in Members(batchLog[1]) : pc[f] = "Failed"
    /\ \E f \in Selected : pc[f] = "Pending" /\ f \notin Members(batch)

\* C12: when every stage program exits and every awaited archive is
\* eventually written, the run ends with the collection: every selected
\* frame is Done or Failed and every batch was processed.  No step of the
\* run can be repeated for ever (each moves a frame or the main script
\* forward), so the run ends, and the claim is that it can end only there:
\* a state that no step can leave is a state after the collection, or after
\* the exit on an empty selection.
C12_Termination ==
    (~ENABLED <<Next>>_vars) =>
        /\ mainpc \in {"done", "exit1"}
        /\ \A f \in Selected : Terminal(f)
        /\ mainpc = "done" => collects = 1 /\ Concat(batchLog) = selected_maes

\* The same claim as a property of the fair behaviours.
C12_EventuallyCollected == <>(mainpc \in {"done", "exit1"})

\* A frame whose wait loop finds no archive.
Starved(f) == pc[f] = "WaitingForGrid" /\ NewestMatch(zips) = 0

\* C13: a frame that polls for ever keeps no other frame from finishing:
\* every other selected frame, of its batch or of a later one, still
\* reaches Done or Failed.  Stated on the states that no step can leave,
\* where a frame that is still waiting waits for ever; the runs that an
\* uncaught exception ended are set aside.
C13_HangIsolated ==
    ((~ENABLED <<NextHang>>_vars) /\ mainpc # "crashed") =>
        \A f \in Selected : Terminal(f) \/ Starved(f)

\* The archives of the working directory whose name contains "gridgen".
Candidates == {i \in DOMAIN zips : zips[i].kind = "gridgen"}

\* C14: a frame leaves the wait only with a file that is in the working
\* directory at that poll, whose name contains the pattern and which is the
\* most recently modified of the files that do; while there is no such file
\* the frame stays in the wait and has no archive.
C14_WaiterSelection ==
    [][\A f \in Idx :
         pc[f] = "WaitingForGrid" =>
           /\ Candidates = {} => pc'[f] = "WaitingForGrid" /\ gridSrc'[f] = 0
           /\ pc'[f] # "WaitingForGrid" =>
                /\ pc'[f] = "HypothesisGenerating"
                /\ \E i \in Candidates :
                     /\ \A j \in Candidates : j <= i
                     /\ gridSrc'[f] = zips[i].owner]_vars

\* A frame has left the wait with the newer of two candidate archives while
\* the newest zip file of the directory was one without the pattern.
C14_Witness ==
    \E k \in DOMAIN zips :
      LET f == zips[k].owner
          before == {i \in Candidates : i < k}
      IN /\ zips[k].kind = "grid"
         /\ Cardinality(before) = 2
         /\ zips[k - 1].kind = "grid"
         /\ \E i \in before : (\A j \in before : j <= i) /\ gridSrc[f] = zips[i].owner
         /\ pc[f] # "WaitingForGrid"

CleanupFailed == cleanupStatus \in {"nonzero", "oserror"}

\* C15: a cleanup that fails does not end the run.  After any outcome of
\* the jobcontrol call the main script is at the head of the batch loop with
\* the cleanup counted and the loop variable advanced, and the next step of
\* the main script is the next batch when selected frames remain, the
\* collection otherwise.
C15_CleanupNonFatal ==
    /\ [](cleanupStatus # "none" =>
            /\ mainpc = "loop"
            /\ cleanups = Len(batchLog)
            /\ batch_start = cleanups * BATCH_SIZE)
    /\ [][CleanupFailed /\ mainpc' # mainpc =>
            IF batch_start < Len(selected_maes)
            THEN mainpc' = "map" /\ Len(batchLog') = Len(batchLog) + 1
            ELSE mainpc' = "done" /\ collects' = collects + 1]_vars

\* jobcontrol could not be launched after the first batch, and selected
\* frames remain for a second batch.
C15_Witness ==
    /\ cleanupStatus = "oserror"
    /\ Len(batchLog) = 1
    /\ batch_start < Len(selected_maes)

\* C16: the collection is executed exactly once in a run, one execution
\* when the main script has ended and never a second one; it comes only
\* after every batch: every selected frame is Done or Failed, every batch
\* was formed and the cleanup of the last one was invoked; and every file
\* it copied is in the collection directory under the name it has in the
\* working directory.
C16_CollectionLastAndOnce ==
    /\ collects <= 1
    /\ RunEnded => collects = 1
    /\ collects = 1 =>
         /\ \A f \in Selected : Terminal(f)
         /\ Concat(batchLog) = selected_maes
         /\ cleanups = Len(batchLog)
         /\ \A w \in workPhypo : \E e \in hypDir : NameOf(e) = NameOf(w) /\ e = w

\* The arguments break a constraint of the configuration.
InvalidArgs ==
    BATCH_SIZE <= 0 \/ STEP <= 0 \/ USER_NCORES <= 0 \/ START_IDX > END_IDX

\* C17: a run whose batch size, stride or pool width is not positive, or
\* whose start is beyond its end, starts no frame pipeline and does not
\* finish as a completed run.
C17_ArgumentsEnforced ==
    InvalidArgs => (\A f \in Idx : pc[f] = "Pending") /\ mainpc # "done"

\* The tasks handed to the pool so far, in order.
TasksFormed == Concat(batchLog)

\* C18: when the main script has ended every selected frame was started,
\* and no frame is ever handed to the pool twice; no stage call (a program
\* in one mode) appears twice in a frame's history; a frame that is Done or
\* Failed has no worker, so nothing is run for it any more.
C18_NoRetries ==
    /\ RunEnded => \A f \in Selected : pc[f] # "Pending"
    /\ \A j, k \in DOMAIN TasksFormed : TasksFormed[j] = TasksFormed[k] => j = k
    /\ \A f \in Idx : \A j, k \in DOMAIN invoked[f] :
         invoked[f][j].stage = invoked[f][k].stage => j = k
    /\ \A f \in Idx : Terminal(f) => \A w \in DOMAIN worker : worker[w] # f

\* C19: whatever the working directory held at the start of the run, every
\* file the collection copied is the hypothesis that a frame selected in
\* this run wrote in this run on reaching Done.  With a collection directory
\* that was empty at the start, its files are the ones copied.
C19_CollectedBelongToRun ==
    (mainpc = "done" /\ initHyp = {}) =>
        \A e \in hypDir :
            /\ e.idx \in Selected
            /\ pc[e.idx] = "Done"
            /\ e.content = "run"

====
